---- MODULE Spec2Model ----
(***************************************************************************)
(* Model of src/proxy/http/balance/fallback.rs: the fallback dispatch      *)
(* combinator.  A Service holds a primary and a fallback handler; call()   *)
(* hands the request to the primary and returns a ResponseFuture whose     *)
(* poll() drives the Primary / FallbackPending / Fallback state machine.   *)
(* The primary and fallback handlers, their futures and the executor are   *)
(* collaborators: their results are drawn from small sets.                 *)
(***************************************************************************)
EXTENDS Integers, Sequences, FiniteSets, TLC

\* ---- bounds ----
NumDispatch == 2

Dispatches == 1..NumDispatch

\* ---- value domains of the collaborators ----
Requests == {"/x", "/y"}
Statuses == {"200"}
RawErrors == {"e1"}

NoReq == "none"
NoHandle == 0
SvcFallbackHandle == 1

\* Identity of the clones of the fallback handle owned by dispatch d: the
\* clone taken by Service::call and the clone taken on rejection.
CallClone(d) == 2 * d
RejectClone(d) == 2 * d + 1

\* Into<Error>: boxes a collaborator's error into the common error type.
IntoError(e) == [boxed |-> e]

\* The common error type: Fallback::Inner carries it already converted.
Errors == {IntoError(e) : e \in RawErrors}

NoVal == [none |-> TRUE]

\* ---- poll results (futures::Poll) ----
Ready(v) == [kind |-> "Ready", val |-> v]
NotReady == [kind |-> "NotReady", val |-> NoVal]
Err(e) == [kind |-> "Err", val |-> e]
\* no value returned yet (the future was never polled)
NoRet == [kind |-> "None", val |-> NoVal]
\* the match in the Primary arm has no arm for the value polled
NoArm == [kind |-> "NoArm", val |-> NoVal]
\* unreachable!() in Service::poll_ready
Panic == [kind |-> "Panic", val |-> NoVal]
\* the loop of ResponseFuture::poll goes round again
Continue == [kind |-> "Continue", val |-> NoVal]

\* enum Fallback<P>
Rejected(req) == [variant |-> "Rejected", req |-> req, err |-> NoVal]
Inner(e) == [variant |-> "Inner", req |-> NoReq, err |-> e]

\* enum Body<A, B>
BodyA(b) == [tag |-> "A", inner |-> b]
BodyB(b) == [tag |-> "B", inner |-> b]

\* http::Response::map applied with Body::A / Body::B
RspMapATagsB(rsp) == [head |-> rsp.head, body |-> BodyB(rsp.body)]
RspMapBTagsA(rsp) == [head |-> rsp.head, body |-> BodyA(rsp.body)]

RspMapA(rsp) == [head |-> rsp.head, body |-> BodyA(rsp.body)]
RspMapB(rsp) == [head |-> rsp.head, body |-> BodyB(rsp.body)]

\* ---- collaborators ----
\* What the primary handler's poll_ready() may report.
PrimaryReadyResults ==
    {Ready(NoVal), NotReady} \cup {Err(Inner(e)) : e \in Errors}
        \cup {Err(Rejected(r)) : r \in Requests}

\* primary_service.call(req): the future owns the request.
PrimaryCall(req) == [req |-> req]

\* What a poll of a collaborator's future may produce: the future's own
\* choice, not decided by this module.  A rejecting primary hands back the
\* request it was called with (Fallback::Rejected carries the request).
Outcome(out, with) == [out |-> out, with |-> with]

Undrawn == Outcome("NotReady", "-")

PrimaryOutcomes ==
    {Outcome("NotReady", "-"), Outcome("Reject", "-")}
        \cup {Outcome("Respond", st) : st \in Statuses}
        \cup {Outcome("Fail", e) : e \in RawErrors}

PrimaryFuturePoll(f, o) ==
    CASE o.out = "NotReady" -> NotReady
      [] o.out = "Reject" -> Err(Rejected(f.req))
      [] o.out = "Fail" -> Err(Inner(IntoError(o.with)))
      [] o.out = "Respond" -> Ready([head |-> o.with, body |-> f.req])

\* What the fallback handler's poll_ready() may report (raw error type).
FallbackReadiness == {"Ready", "NotReady"} \cup RawErrors

FallbackPollReady(r) ==
    IF r = "Ready" THEN Ready(NoVal)
    ELSE IF r = "NotReady" THEN NotReady
    ELSE Err(r)

\* fallback.call(req) on handle h: the future owns the request.
FallbackCall(h, req) == [handle |-> h, req |-> req]

\* The fallback handler's answer to a request.
FallbackResponse(req, status) == [head |-> status, body |-> req]

FallbackOutcomes ==
    {Outcome("NotReady", "-")}
        \cup {Outcome("Respond", st) : st \in Statuses}
        \cup {Outcome("Fail", e) : e \in RawErrors}

FallbackFuturePoll(f, o) ==
    CASE o.out = "NotReady" -> NotReady
      [] o.out = "Fail" -> Err(o.with)
      [] o.out = "Respond" -> Ready(FallbackResponse(f.req, o.with))

\* ---- collaborator operations recorded during one poll ----
\* name of the operation, the fallback handle it is invoked on, the request
\* passed or owned, the kind of result and the status or raw error it carries
Op(name, h, req, res, with) ==
    [op |-> name, h |-> h, req |-> req, res |-> res, with |-> with]

\* Option<T>
Some(v) == <<v>>
None == <<>>

SelectOps(tr, name) == SelectSeq(tr, LAMBDA o : o.op = name)

\* ---- state ----
VARIABLES
    svcState,      \* what the Service's caller last learnt: "idle", "ready", "failed", "panicked"
    svcRet,        \* value returned by the last Service::poll_ready
    svcTrace,      \* collaborator operations of the last Service operation
    disp,          \* the ResponseFuture of each dispatch
    ret,           \* value returned by the last poll of each ResponseFuture
    trace,         \* collaborator operations of that last poll, in order
    startState,    \* state the ResponseFuture was in when that poll began
    path,          \* every state the ResponseFuture has been given, in order
    primaryCalls,  \* primary.call() invocations per dispatch, in order
    fbCalls,       \* fallback.call() invocations per dispatch, in order
    fbReadyPolled, \* whether the dispatch ever invoked fallback.poll_ready()
    rejectedReq,   \* the request carried by the Rejected signal, once seen
    fbReadiness,   \* what the fallback handler's poll_ready() reports now
    mkIn,          \* what the two sub-factories reported to the last MakeSvc::poll_ready
    mkRet,         \* value returned by the last MakeSvc::poll_ready
    mkTrace,       \* sub-factory operations of the last MakeSvc operation
    mf,            \* the MakeFuture and the two constructions it owns
    mfRet,         \* value returned by the last poll of the MakeFuture
    mfTrace,       \* construction polls of that last poll, in order
    mfSeen,        \* status of the two constructions when that last poll began
    repolled,      \* whether the dispatch was polled again after a poll that failed
    body,          \* a combined Body: its tag and the underlying body it wraps
    bodyTag,       \* the tag the Body was created with
    bodyOp,        \* the last operation invoked on the Body
    bodyRet,       \* what that operation returned
    shadow,        \* the same underlying body, driven directly
    shadowRet      \* what the same operation returned on it

dispVars == <<svcState, svcRet, svcTrace, disp, ret, trace, startState, path,
              primaryCalls, fbCalls, fbReadyPolled, rejectedReq, fbReadiness,
              repolled>>

makeVars == <<mkIn, mkRet, mkTrace, mf, mfRet, mfTrace, mfSeen>>

bodyVars == <<body, bodyTag, bodyOp, bodyRet, shadow, shadowRet>>

vars == <<svcState, svcRet, svcTrace, disp, ret, trace, startState, path,
          primaryCalls, fbCalls, fbReadyPolled, rejectedReq, fbReadiness,
          mkIn, mkRet, mkTrace, mf, mfRet, mfTrace, mfSeen, repolled,
          body, bodyTag, bodyOp, bodyRet, shadow, shadowRet>>

\* ---- enum ResponseFuture ----
NotCreated ==
    [state |-> "None", future |-> None, fallback |-> NoHandle,
     request |-> None, fbFuture |-> None]

Primary(future, fallback) ==
    [state |-> "Primary", future |-> Some(future), fallback |-> fallback,
     request |-> None, fbFuture |-> None]

FallbackPending(fallback, request) ==
    [state |-> "FallbackPending", future |-> None, fallback |-> fallback,
     request |-> request, fbFuture |-> None]

Fallback(f) ==
    [state |-> "Fallback", future |-> None, fallback |-> NoHandle,
     request |-> None, fbFuture |-> Some(f)]

\* ---- Service::poll_ready ----
\* pr is what primary_service.poll_ready() reports; yields the value
\* returned and the collaborator operations performed.
Called(r, ops) == [ret |-> r, ops |-> ops]

\* variant: readiness also waits for the fallback handler
ServicePollReadyGated(pr) ==
    LET res == IF pr.kind = "Err" THEN pr.val.variant ELSE pr.kind
        with == IF pr.kind = "Err" /\ pr.val.variant = "Inner"
                THEN pr.val.err.boxed ELSE "-"
        op == Op("primary.poll_ready", NoHandle, NoReq, res, with)
        f == FallbackPollReady(fbReadiness)
        fop == Op("fallback.poll_ready", SvcFallbackHandle, NoReq, f.kind,
                  IF f.kind = "Err" THEN f.val ELSE "-")
    IN CASE pr.kind = "NotReady" -> Called(pr, <<op>>)
         [] pr.kind = "Ready" ->
                IF f.kind = "Err" THEN Called(Err(IntoError(f.val)), <<op, fop>>)
                ELSE Called(f, <<op, fop>>)
         [] pr.kind = "Err" /\ pr.val.variant = "Inner" ->
                Called(Err(pr.val.err), <<op>>)
         [] pr.kind = "Err" /\ pr.val.variant = "Rejected" ->
                Called(Panic, <<op>>)

\* variant: a rejection seen by the readiness check is returned as an error
ServicePollReadyLeaksRejected(pr) ==
    LET res == IF pr.kind = "Err" THEN pr.val.variant ELSE pr.kind
        with == IF pr.kind = "Err" /\ pr.val.variant = "Inner"
                THEN pr.val.err.boxed ELSE "-"
        op == Op("primary.poll_ready", NoHandle, NoReq, res, with)
    IN CASE pr.kind \in {"Ready", "NotReady"} -> Called(pr, <<op>>)
         [] pr.kind = "Err" -> Called(Err(pr.val), <<op>>)

ServicePollReady(pr) ==
    LET res == IF pr.kind = "Err" THEN pr.val.variant ELSE pr.kind
        with == IF pr.kind = "Err" /\ pr.val.variant = "Inner"
                THEN pr.val.err.boxed ELSE "-"
        op == Op("primary.poll_ready", NoHandle, NoReq, res, with)
    IN CASE pr.kind \in {"Ready", "NotReady"} -> Called(pr, <<op>>)
         [] pr.kind = "Err" /\ pr.val.variant = "Inner" ->
                Called(Err(pr.val.err), <<op>>)
         [] pr.kind = "Err" /\ pr.val.variant = "Rejected" ->
                Called(Panic, <<op>>)

\* ---- Service::call ----
\* nh is the identity of the clone of fallback_service; yields the
\* ResponseFuture returned and the collaborator operations performed.
ServiceCall(req, nh) ==
    Called(Primary(PrimaryCall(req), nh),
           <<Op("primary.call", NoHandle, req, "-", "-")>>)

\* ---- ResponseFuture::poll ----
\* One pass of an arm yields the next state, the value returned (Continue
\* when the loop goes round again) and the collaborator operations
\* performed.  nh is the identity of the clone taken on rejection.
Step(s, r, ops) == [s |-> s, ret |-> r, ops |-> ops, path |-> <<>>]

\* variant: a hard failure is retried on the fallback
PrimaryArmRetriesInner(s, nh, po) ==
    LET f == s.future[1]
        r == PrimaryFuturePoll(f, po)
        res == IF r.kind = "Err" THEN r.val.variant ELSE r.kind
        op == Op("primary.poll", NoHandle, f.req, res, po.with)
    IN CASE r.kind = "Ready" -> Step(s, Ready(RspMapA(r.val)), <<op>>)
         [] r.kind = "Err" /\ r.val.variant = "Inner" ->
                Step(FallbackPending(nh, Some(f.req)), Continue, <<op>>)
         [] r.kind = "Err" /\ r.val.variant = "Rejected" ->
                Step(FallbackPending(nh, Some(r.val.req)), Continue, <<op>>)
         [] OTHER -> Step(s, NoArm, <<op>>)

\* variant: a rejection calls the fallback at once, without FallbackPending
PrimaryArmSkipsPending(s, nh, po) ==
    LET f == s.future[1]
        r == PrimaryFuturePoll(f, po)
        res == IF r.kind = "Err" THEN r.val.variant ELSE r.kind
        op == Op("primary.poll", NoHandle, f.req, res, po.with)
    IN CASE r.kind = "Ready" -> Step(s, Ready(RspMapA(r.val)), <<op>>)
         [] r.kind = "Err" /\ r.val.variant = "Inner" ->
                Step(s, Err(r.val.err), <<op>>)
         [] r.kind = "Err" /\ r.val.variant = "Rejected" ->
                Step(Fallback(FallbackCall(nh, r.val.req)), Continue,
                     <<op, Op("fallback.call", nh, r.val.req, "-", "-")>>)
         [] OTHER -> Step(s, NoArm, <<op>>)

\* variant: the request is copied for the fallback, the primary future kept
PrimaryArmKeepsFuture(s, nh, po) ==
    LET f == s.future[1]
        r == PrimaryFuturePoll(f, po)
        res == IF r.kind = "Err" THEN r.val.variant ELSE r.kind
        op == Op("primary.poll", NoHandle, f.req, res, po.with)
    IN CASE r.kind = "Ready" -> Step(s, Ready(RspMapA(r.val)), <<op>>)
         [] r.kind = "Err" /\ r.val.variant = "Inner" ->
                Step(s, Err(r.val.err), <<op>>)
         [] r.kind = "Err" /\ r.val.variant = "Rejected" ->
                Step([FallbackPending(nh, Some(r.val.req)) EXCEPT !.future = s.future],
                     Continue, <<op>>)
         [] OTHER -> Step(s, NoArm, <<op>>)

\* variant: a primary that is slow to answer is treated as a rejection
PrimaryArmFallsBackOnPending(s, nh, po) ==
    LET f == s.future[1]
        r == PrimaryFuturePoll(f, po)
        res == IF r.kind = "Err" THEN r.val.variant ELSE r.kind
        op == Op("primary.poll", NoHandle, f.req, res, po.with)
    IN CASE r.kind = "Ready" -> Step(s, Ready(RspMapA(r.val)), <<op>>)
         [] r.kind = "Err" /\ r.val.variant = "Inner" ->
                Step(s, Err(r.val.err), <<op>>)
         [] r.kind = "Err" /\ r.val.variant = "Rejected" ->
                Step(FallbackPending(nh, Some(r.val.req)), Continue, <<op>>)
         [] OTHER -> Step(FallbackPending(nh, Some(f.req)), Continue, <<op>>)

PrimaryArm(s, nh, po) ==
    LET f == s.future[1]
        r == PrimaryFuturePoll(f, po)
        res == IF r.kind = "Err" THEN r.val.variant ELSE r.kind
        op == Op("primary.poll", NoHandle, f.req, res, po.with)
    IN CASE r.kind = "Ready" -> Step(s, Ready(RspMapA(r.val)), <<op>>)
         [] r.kind = "Err" /\ r.val.variant = "Inner" ->
                Step(s, Err(r.val.err), <<op>>)
         [] r.kind = "Err" /\ r.val.variant = "Rejected" ->
                Step(FallbackPending(nh, Some(r.val.req)), Continue, <<op>>)
         [] OTHER -> Step(s, NoArm, <<op>>)

\* variant: a ready fallback is not acted upon
FallbackPendingArmIgnoresReady(s, fr) ==
    LET r == FallbackPollReady(fr)
        op == Op("fallback.poll_ready", s.fallback, NoReq, r.kind,
                 IF r.kind = "Err" THEN r.val ELSE "-")
    IN CASE r.kind = "Err" -> Step(s, Err(IntoError(r.val)), <<op>>)
         [] r.kind \in {"NotReady", "Ready"} -> Step(s, NotReady, <<op>>)

\* variant: the fallback is called without waiting for its readiness
FallbackPendingArmCallsUnready(s, fr) ==
    LET r == FallbackPollReady(fr)
        op == Op("fallback.poll_ready", s.fallback, NoReq, r.kind,
                 IF r.kind = "Err" THEN r.val ELSE "-")
    IN CASE r.kind = "Err" -> Step(s, Err(IntoError(r.val)), <<op>>)
         [] r.kind \in {"NotReady", "Ready"} ->
                IF s.request = None
                THEN Step(s, Panic, <<op>>)
                ELSE LET req == s.request[1]
                     IN Step(Fallback(FallbackCall(s.fallback, req)), Continue,
                             <<op, Op("fallback.call", s.fallback, req, "-", "-")>>)

\* variant: a failing readiness check is taken for a fallback not yet ready
FallbackPendingArmSwallowsError(s, fr) ==
    LET r == FallbackPollReady(fr)
        op == Op("fallback.poll_ready", s.fallback, NoReq, r.kind,
                 IF r.kind = "Err" THEN r.val ELSE "-")
    IN CASE r.kind = "Err" -> Step(s, NotReady, <<op>>)
         [] r.kind = "NotReady" -> Step(s, NotReady, <<op>>)
         [] r.kind = "Ready" ->
                IF s.request = None
                THEN Step(s, Panic, <<op>>)
                ELSE LET req == s.request[1]
                     IN Step(Fallback(FallbackCall(s.fallback, req)), Continue,
                             <<op, Op("fallback.call", s.fallback, req, "-", "-")>>)

\* variant: the request is taken before the readiness check
FallbackPendingArmTakesBeforeReady(s, fr) ==
    LET r == FallbackPollReady(fr)
        op == Op("fallback.poll_ready", s.fallback, NoReq, r.kind,
                 IF r.kind = "Err" THEN r.val ELSE "-")
        taken == [s EXCEPT !.request = None]
    IN IF s.request = None
       THEN Step(s, Panic, <<>>)
       ELSE CASE r.kind = "Err" -> Step(taken, Err(IntoError(r.val)), <<op>>)
              [] r.kind = "NotReady" -> Step(taken, NotReady, <<op>>)
              [] r.kind = "Ready" ->
                     LET req == s.request[1]
                     IN Step(Fallback(FallbackCall(s.fallback, req)), Continue,
                             <<op, Op("fallback.call", s.fallback, req, "-", "-")>>)

\* variant: the poll yields to the executor once the fallback is called
FallbackPendingArmYieldsAfterCall(s, fr) ==
    LET r == FallbackPollReady(fr)
        op == Op("fallback.poll_ready", s.fallback, NoReq, r.kind,
                 IF r.kind = "Err" THEN r.val ELSE "-")
    IN CASE r.kind = "Err" -> Step(s, Err(IntoError(r.val)), <<op>>)
         [] r.kind = "NotReady" -> Step(s, NotReady, <<op>>)
         [] r.kind = "Ready" ->
                IF s.request = None
                THEN Step(s, Panic, <<op>>)
                ELSE LET req == s.request[1]
                     IN Step(Fallback(FallbackCall(s.fallback, req)), NotReady,
                             <<op, Op("fallback.call", s.fallback, req, "-", "-")>>)

FallbackPendingArm(s, fr) ==
    LET r == FallbackPollReady(fr)
        op == Op("fallback.poll_ready", s.fallback, NoReq, r.kind,
                 IF r.kind = "Err" THEN r.val ELSE "-")
    IN CASE r.kind = "Err" -> Step(s, Err(IntoError(r.val)), <<op>>)
         [] r.kind = "NotReady" -> Step(s, NotReady, <<op>>)
         [] r.kind = "Ready" ->
                IF s.request = None
                THEN Step(s, Panic, <<op>>)
                ELSE LET req == s.request[1]
                     IN Step(Fallback(FallbackCall(s.fallback, req)), Continue,
                             <<op, Op("fallback.call", s.fallback, req, "-", "-")>>)

FallbackArm(s, fo) ==
    LET f == s.fbFuture[1]
        r == FallbackFuturePoll(f, fo)
        op == Op("fallback_future.poll", f.handle, f.req, r.kind, fo.with)
    IN CASE r.kind = "NotReady" -> Step(s, NotReady, <<op>>)
         [] r.kind = "Err" -> Step(s, Err(IntoError(r.val)), <<op>>)
         [] r.kind = "Ready" -> Step(s, Ready(RspMapB(r.val)), <<op>>)

Arm(s, nh, po, fr, fo) ==
    CASE s.state = "Primary" -> PrimaryArm(s, nh, po)
      [] s.state = "FallbackPending" -> FallbackPendingArm(s, fr)
      [] s.state = "Fallback" -> FallbackArm(s, fo)

\* The loop: an arm that yields Continue has overwritten *self, and the
\* match is entered again.  seen collects the states *self is overwritten with.
RECURSIVE PollLoop(_, _, _, _, _, _, _)
PollLoop(s, ops, seen, nh, po, fr, fo) ==
    LET r == Arm(s, nh, po, fr, fo)
    IN IF r.ret.kind = "Continue"
       THEN PollLoop(r.s, ops \o r.ops, Append(seen, r.s.state), nh, po, fr, fo)
       ELSE [s |-> r.s, ret |-> r.ret, ops |-> ops \o r.ops, path |-> seen]

ResponseFuturePoll(s, nh, po, fr, fo) == PollLoop(s, <<>>, <<>>, nh, po, fr, fo)

\* ---- MakeSvc and MakeFuture ----
Targets == {"t1", "t2"}
MakeErrors == {"m1", "m2"}
NoTarget == "none"

\* What a sub-factory's poll_ready() may report (raw error type).
MakerReadiness == {"Ready", "NotReady"} \cup MakeErrors

MakerPollReady(r) ==
    IF r = "Ready" THEN Ready(NoVal)
    ELSE IF r = "NotReady" THEN NotReady
    ELSE Err(r)

\* An operation on a sub-factory or on one of the two constructions; stale
\* tells that the construction polled had already yielded its result.
MakeOp(name, res, with, stale) ==
    [op |-> name, res |-> res, with |-> with, stale |-> stale]

\* variant: a pending primary sub-factory ends the readiness check
MakeSvcPollReadyStopsOnPending(p, f) ==
    LET pr == MakerPollReady(p)
        fr == MakerPollReady(f)
        pop == MakeOp("primary_make.poll_ready", pr.kind,
                      IF pr.kind = "Err" THEN pr.val ELSE "-", FALSE)
        fop == MakeOp("fallback_make.poll_ready", fr.kind,
                      IF fr.kind = "Err" THEN fr.val ELSE "-", FALSE)
    IN IF pr.kind = "Err" THEN Called(Err(IntoError(pr.val)), <<pop>>)
       ELSE IF pr.kind = "NotReady" THEN Called(NotReady, <<pop>>)
       ELSE IF fr.kind = "Err" THEN Called(Err(IntoError(fr.val)), <<pop, fop>>)
       ELSE IF fr.kind = "Ready"
       THEN Called(Ready(NoVal), <<pop, fop>>)
       ELSE Called(NotReady, <<pop, fop>>)

\* MakeSvc::poll_ready; p and f are what primary_make and fallback_make
\* report when asked.
MakeSvcPollReady(p, f) ==
    LET pr == MakerPollReady(p)
        fr == MakerPollReady(f)
        pop == MakeOp("primary_make.poll_ready", pr.kind,
                      IF pr.kind = "Err" THEN pr.val ELSE "-", FALSE)
        fop == MakeOp("fallback_make.poll_ready", fr.kind,
                      IF fr.kind = "Err" THEN fr.val ELSE "-", FALSE)
    IN IF pr.kind = "Err" THEN Called(Err(IntoError(pr.val)), <<pop>>)
       ELSE IF fr.kind = "Err" THEN Called(Err(IntoError(fr.val)), <<pop, fop>>)
       ELSE IF pr.kind = "Ready" /\ fr.kind = "Ready"
       THEN Called(Ready(NoVal), <<pop, fop>>)
       ELSE Called(NotReady, <<pop, fop>>)

\* A construction started by a sub-factory: it finishes on its own, and
\* yields its handler or its error to one poll.
Construction(status, err, yielded) ==
    [status |-> status, err |-> err, yielded |-> yielded]

NoConstruction == Construction("None", "-", FALSE)

\* The handler a sub-factory constructs for a target.
Handler(side, target) == [made_by |-> side, target |-> target]

\* struct MakeFuture
MakeFuture(target, primary, fallback) ==
    [created |-> TRUE, target |-> target, primary |-> primary, fallback |-> fallback]

NotMade ==
    [created |-> FALSE, target |-> NoTarget, primary |-> NoConstruction,
     fallback |-> NoConstruction]

\* struct Service
Service(primary_service, fallback_service) ==
    [primary_service |-> primary_service, fallback_service |-> fallback_service]

\* MakeSvc::call
MakeSvcCall(target) ==
    Called(MakeFuture(target, Construction("Pending", "-", FALSE),
                      Construction("Pending", "-", FALSE)),
           <<MakeOp("primary_make.call", "-", target, FALSE),
             MakeOp("fallback_make.call", "-", target, FALSE)>>)

\* What polling a construction that has already yielded may do: the
\* Future contract leaves it open (panic, never ready, the value again, an
\* error).
StaleOutcomes == {"Panic", "NotReady", "Ready"} \cup MakeErrors

\* self.primary.poll() / self.fallback.poll(); so is the outcome chosen by
\* a construction that is polled after it has yielded.
ConstructionPoll(c, side, target, so) ==
    IF c.yielded
    THEN [c |-> c,
          res |-> CASE so = "Panic" -> Panic
                    [] so = "NotReady" -> NotReady
                    [] so = "Ready" -> Ready(Handler(side, target))
                    [] OTHER -> Err(so)]
    ELSE CASE c.status = "Pending" -> [c |-> c, res |-> NotReady]
           [] c.status = "Ok" ->
                [c |-> [c EXCEPT !.yielded = TRUE],
                 res |-> Ready(Handler(side, target))]
           [] c.status = "Failed" ->
                [c |-> [c EXCEPT !.yielded = TRUE], res |-> Err(c.err)]

ConstructionOp(name, c, r) ==
    MakeOp(name, r.res.kind, IF r.res.kind = "Err" THEN r.res.val ELSE "-", c.yielded)

MadeStep(m, r, ops) == [m |-> m, ret |-> r, ops |-> ops]

\* MakeFuture::poll
MakeFuturePoll(m, so) ==
    LET p == ConstructionPoll(m.primary, "primary", m.target, so)
        pop == ConstructionOp("primary.poll", m.primary, p)
        m1 == [m EXCEPT !.primary = p.c]
    IN CASE p.res.kind = "Panic" -> MadeStep(m1, Panic, <<pop>>)
         [] p.res.kind = "NotReady" -> MadeStep(m1, NotReady, <<pop>>)
         [] p.res.kind = "Err" -> MadeStep(m1, Err(IntoError(p.res.val)), <<pop>>)
         [] p.res.kind = "Ready" ->
              LET f == ConstructionPoll(m1.fallback, "fallback", m.target, so)
                  fop == ConstructionOp("fallback.poll", m1.fallback, f)
                  m2 == [m1 EXCEPT !.fallback = f.c]
              IN CASE f.res.kind = "Panic" -> MadeStep(m2, Panic, <<pop, fop>>)
                   [] f.res.kind = "NotReady" -> MadeStep(m2, NotReady, <<pop, fop>>)
                   [] f.res.kind = "Err" ->
                        MadeStep(m2, Err(IntoError(f.res.val)), <<pop, fop>>)
                   [] f.res.kind = "Ready" ->
                        MadeStep(m2, Ready(Service(p.res.val, f.res.val)), <<pop, fop>>)

\* ---- Body and the bodies it wraps ----
Chunks == {"c1", "c2"}
Trailers == {"tr"}
BodyErrors == {"b1"}
Tags == {"A", "B"}
MaxChunks == 2

ChunkSeqs == UNION {[1..n -> Chunks] : n \in 0..MaxChunks}

\* An underlying body (a Payload): the chunks and trailers still to come.
Payload(chunks, trailers) == [chunks |-> chunks, trailers |-> trailers]

NoPayload == Payload(<<>>, None)

NoBody == [tag |-> "none", inner |-> NoPayload]

\* What an operation on an underlying body may do: hand out what comes
\* next, report not ready, or fail.
PayloadOutcomes == {"Progress", "NotReady"} \cup BodyErrors

\* The body after an operation and the value returned.
Polled(b, res) == [b |-> b, res |-> res]

PayloadPollData(b, o) ==
    CASE o = "NotReady" -> Polled(b, NotReady)
      [] o \in BodyErrors -> Polled(b, Err(o))
      [] o = "Progress" ->
             IF b.chunks = <<>>
             THEN Polled(b, Ready(None))
             ELSE Polled([b EXCEPT !.chunks = Tail(@)], Ready(Some(Head(b.chunks))))

PayloadPollTrailers(b, o) ==
    CASE o = "NotReady" -> Polled(b, NotReady)
      [] o \in BodyErrors -> Polled(b, Err(o))
      [] o = "Progress" -> Polled([b EXCEPT !.trailers = None], Ready(b.trailers))

\* is_end_stream is a hint: it may answer false on a body that has ended.
Answer(v) == [kind |-> "Bool", val |-> v]

PayloadIsEndStream(b, hint) ==
    Polled(b, Answer(hint /\ b.chunks = <<>> /\ b.trailers = None))

\* r.map(|o| o.map(tag)) on the result of poll_data
MapData(res, tag) ==
    IF res.kind = "Ready" /\ res.val # None
    THEN Ready(Some(IF tag = "A" THEN BodyA(res.val[1]) ELSE BodyB(res.val[1])))
    ELSE res

\* variant: every chunk is handed out under tag B
BodyPollDataTagsB(b, o) ==
    LET r == PayloadPollData(b.inner, o)
    IN CASE b.tag = "A" -> Polled(BodyA(r.b), MapData(r.res, "B"))
         [] b.tag = "B" -> Polled(BodyB(r.b), MapData(r.res, "B"))

\* Body::poll_data
BodyPollData(b, o) ==
    LET r == PayloadPollData(b.inner, o)
    IN CASE b.tag = "A" -> Polled(BodyA(r.b), MapData(r.res, "A"))
         [] b.tag = "B" -> Polled(BodyB(r.b), MapData(r.res, "B"))

\* Body::poll_trailers
BodyPollTrailers(b, o) ==
    LET r == PayloadPollTrailers(b.inner, o)
    IN CASE b.tag = "A" -> Polled(BodyA(r.b), r.res)
         [] b.tag = "B" -> Polled(BodyB(r.b), r.res)

\* Body::is_end_stream
BodyIsEndStream(b, hint) ==
    LET r == PayloadIsEndStream(b.inner, hint)
    IN CASE b.tag = "A" -> Polled(BodyA(r.b), r.res)
         [] b.tag = "B" -> Polled(BodyB(r.b), r.res)

\* ---- bookkeeping over the operations of one poll ----
RejectedIn(ops) ==
    LET rs == SelectSeq(ops, LAMBDA o : o.op = "primary.poll" /\ o.res = "Rejected")
    IN [i \in 1..Len(rs) |-> rs[i].req]

\* ---- initial state ----
Init ==
    /\ svcState = "idle"
    /\ svcRet = NoRet
    /\ svcTrace = <<>>
    /\ disp = [d \in Dispatches |-> NotCreated]
    /\ ret = [d \in Dispatches |-> NoRet]
    /\ trace = [d \in Dispatches |-> <<>>]
    /\ startState = [d \in Dispatches |-> "None"]
    /\ path = [d \in Dispatches |-> <<>>]
    /\ primaryCalls = [d \in Dispatches |-> <<>>]
    /\ fbCalls = [d \in Dispatches |-> <<>>]
    /\ fbReadyPolled = [d \in Dispatches |-> FALSE]
    /\ rejectedReq = [d \in Dispatches |-> <<>>]
    /\ fbReadiness \in FallbackReadiness
    /\ mkIn = <<>>
    /\ mkRet = NoRet
    /\ mkTrace = <<>>
    /\ mf = NotMade
    /\ mfRet = NoRet
    /\ mfTrace = <<>>
    /\ mfSeen = <<>>
    /\ repolled = [d \in Dispatches |-> FALSE]
    /\ body = NoBody
    /\ bodyTag = "none"
    /\ bodyOp = "none"
    /\ bodyRet = NoRet
    /\ shadow = NoPayload
    /\ shadowRet = NoRet

\* ---- actions ----
\* The caller asks the Service whether it is ready.
SvcPollReady ==
    /\ svcState \in {"idle", "ready"}
    /\ \E pr \in PrimaryReadyResults :
         LET r == ServicePollReady(pr)
         IN /\ svcRet' = r.ret
            /\ svcTrace' = r.ops
            /\ svcState' = CASE r.ret.kind = "Ready" -> "ready"
                              [] r.ret.kind = "NotReady" -> "idle"
                              [] r.ret.kind = "Err" -> "failed"
                              [] r.ret.kind = "Panic" -> "panicked"
    /\ UNCHANGED <<disp, ret, trace, startState, path, primaryCalls, fbCalls,
                   fbReadyPolled, rejectedReq, fbReadiness>>
    /\ UNCHANGED <<repolled, makeVars, bodyVars>>

\* The caller dispatches a request on a Service that reported ready.
SvcCall(d, req) ==
    /\ svcState = "ready"
    /\ disp[d].state = "None"
    /\ \A e \in Dispatches : e < d => disp[e].state # "None"
    /\ LET r == ServiceCall(req, CallClone(d))
       IN /\ disp' = [disp EXCEPT ![d] = r.ret]
          /\ path' = [path EXCEPT ![d] = Append(@, r.ret.state)]
          /\ primaryCalls' = [primaryCalls EXCEPT
                                ![d] = @ \o SelectOps(r.ops, "primary.call")]
          /\ svcTrace' = r.ops
    /\ svcState' = "idle"
    /\ UNCHANGED <<svcRet, ret, trace, startState, fbCalls, fbReadyPolled,
                   rejectedReq, fbReadiness>>
    /\ UNCHANGED <<repolled, makeVars, bodyVars>>

\* variant: the dispatch state lives in the Service, one for all dispatches
PollDispatchSharesState(d) ==
    /\ disp[d].state # "None"
    /\ ret[d].kind \in {"None", "NotReady"}
    /\ \E po \in PrimaryOutcomes, fo \in FallbackOutcomes :
         LET r == ResponseFuturePoll(disp[d], RejectClone(d), po, fbReadiness, fo)
         IN /\ SelectOps(r.ops, "primary.poll") = <<>> => po = Undrawn
            /\ SelectOps(r.ops, "fallback_future.poll") = <<>> => fo = Undrawn
            /\ disp' = [e \in Dispatches |->
                           IF disp[e].state # "None" THEN r.s ELSE disp[e]]
            /\ ret' = [ret EXCEPT ![d] = r.ret]
            /\ trace' = [trace EXCEPT ![d] = r.ops]
            /\ path' = [path EXCEPT ![d] = @ \o r.path]
            /\ fbCalls' = [fbCalls EXCEPT ![d] = @ \o SelectOps(r.ops, "fallback.call")]
            /\ fbReadyPolled' = [fbReadyPolled EXCEPT
                                   ![d] = @ \/ SelectOps(r.ops, "fallback.poll_ready") # <<>>]
            /\ rejectedReq' = [rejectedReq EXCEPT ![d] = @ \o RejectedIn(r.ops)]
    /\ startState' = [startState EXCEPT ![d] = disp[d].state]
    /\ UNCHANGED <<svcState, svcRet, svcTrace, primaryCalls, fbReadiness>>
    /\ UNCHANGED <<repolled, makeVars, bodyVars>>

\* The executor polls a ResponseFuture that has not completed.
PollDispatch(d) ==
    /\ disp[d].state # "None"
    /\ ret[d].kind \in {"None", "NotReady"}
    /\ \E po \in PrimaryOutcomes, fo \in FallbackOutcomes :
         LET r == ResponseFuturePoll(disp[d], RejectClone(d), po, fbReadiness, fo)
         IN \* an outcome is drawn only for a future this poll does poll
            /\ SelectOps(r.ops, "primary.poll") = <<>> => po = Undrawn
            /\ SelectOps(r.ops, "fallback_future.poll") = <<>> => fo = Undrawn
            /\ disp' = [disp EXCEPT ![d] = r.s]
            /\ ret' = [ret EXCEPT ![d] = r.ret]
            /\ trace' = [trace EXCEPT ![d] = r.ops]
            /\ path' = [path EXCEPT ![d] = @ \o r.path]
            /\ fbCalls' = [fbCalls EXCEPT ![d] = @ \o SelectOps(r.ops, "fallback.call")]
            /\ fbReadyPolled' = [fbReadyPolled EXCEPT
                                   ![d] = @ \/ SelectOps(r.ops, "fallback.poll_ready") # <<>>]
            /\ rejectedReq' = [rejectedReq EXCEPT ![d] = @ \o RejectedIn(r.ops)]
    /\ startState' = [startState EXCEPT ![d] = disp[d].state]
    /\ UNCHANGED <<svcState, svcRet, svcTrace, primaryCalls, fbReadiness>>
    /\ UNCHANGED <<repolled, makeVars, bodyVars>>

\* The fallback handler's readiness changes on its own.
FallbackReadinessChanges ==
    /\ \E v \in FallbackReadiness \ {fbReadiness} : fbReadiness' = v
    /\ UNCHANGED <<svcState, svcRet, svcTrace, disp, ret, trace, startState,
                   path, primaryCalls, fbCalls, fbReadyPolled, rejectedReq>>
    /\ UNCHANGED <<repolled, makeVars, bodyVars>>

Next ==
    \/ SvcPollReady
    \/ \E d \in Dispatches, req \in Requests : SvcCall(d, req)
    \/ \E d \in Dispatches : PollDispatch(d)
    \/ FallbackReadinessChanges

Spec == Init /\ [][Next]_vars

\* Progress of one dispatch.  A ResponseFuture is owned by one request and
\* PollDispatch(d) touches nothing of another dispatch, so progress is
\* studied with a single dispatch in flight; the executor polls again every
\* future that is not complete.
FirstDispatch == CHOOSE d \in Dispatches : \A e \in Dispatches : d <= e

LiveNext ==
    \/ SvcPollReady
    \/ \E req \in Requests : SvcCall(FirstDispatch, req)
    \/ PollDispatch(FirstDispatch)
    \/ FallbackReadinessChanges

LiveSpec == Init /\ [][LiveNext]_vars /\ WF_vars(PollDispatch(FirstDispatch))

\* ---- the factory: MakeSvc and its MakeFuture ----
\* The caller asks the factory whether it is ready.
MkPollReady ==
    /\ \E p \in MakerReadiness, f \in MakerReadiness :
         LET r == MakeSvcPollReady(p, f)
         IN /\ mkIn' = <<p, f>>
            /\ mkRet' = r.ret
            /\ mkTrace' = r.ops
    /\ UNCHANGED <<mf, mfRet, mfTrace, mfSeen>>
    /\ UNCHANGED <<dispVars, bodyVars>>

\* The caller asks the factory for the handler pair of a target.
MkCall(target) ==
    /\ ~mf.created
    /\ mkRet.kind = "Ready"
    /\ LET r == MakeSvcCall(target)
       IN /\ mf' = r.ret
          /\ mkTrace' = r.ops
    /\ UNCHANGED <<mkIn, mkRet, mfRet, mfTrace, mfSeen>>
    /\ UNCHANGED <<dispVars, bodyVars>>

\* A construction finishes on its own, with a handler or with an error.
PrimaryConstructionFinishes ==
    /\ mf.created
    /\ mf.primary.status = "Pending"
    /\ \/ mf' = [mf EXCEPT !.primary.status = "Ok"]
       \/ \E e \in MakeErrors :
            mf' = [mf EXCEPT !.primary.status = "Failed", !.primary.err = e]
    /\ UNCHANGED <<mkIn, mkRet, mkTrace, mfRet, mfTrace, mfSeen>>
    /\ UNCHANGED <<dispVars, bodyVars>>

FallbackConstructionFinishes ==
    /\ mf.created
    /\ mf.fallback.status = "Pending"
    /\ \/ mf' = [mf EXCEPT !.fallback.status = "Ok"]
       \/ \E e \in MakeErrors :
            mf' = [mf EXCEPT !.fallback.status = "Failed", !.fallback.err = e]
    /\ UNCHANGED <<mkIn, mkRet, mkTrace, mfRet, mfTrace, mfSeen>>
    /\ UNCHANGED <<dispVars, bodyVars>>

\* The executor polls a MakeFuture that has not completed.
MfPoll ==
    /\ mf.created
    /\ mfRet.kind \in {"None", "NotReady"}
    /\ \E so \in StaleOutcomes :
         LET r == MakeFuturePoll(mf, so)
         IN \* a stale outcome is drawn only when a yielded construction is polled
            /\ (\A i \in 1..Len(r.ops) : ~r.ops[i].stale) => so = "NotReady"
            /\ mf' = r.m
            /\ mfRet' = r.ret
            /\ mfTrace' = r.ops
    /\ mfSeen' = <<mf.primary.status, mf.fallback.status>>
    /\ UNCHANGED <<mkIn, mkRet, mkTrace>>
    /\ UNCHANGED <<dispVars, bodyVars>>

MakeNext ==
    \/ MkPollReady
    \/ \E target \in Targets : MkCall(target)
    \/ PrimaryConstructionFinishes
    \/ FallbackConstructionFinishes
    \/ MfPoll

MakeSpec == Init /\ [][MakeNext]_vars

\* The executor polls again a MakeFuture that is not complete.
MakeLiveSpec == MakeSpec /\ WF_vars(MfPoll)

\* ---- polling again a dispatch whose fallback readiness check failed ----
\* A caller that ignores the error polls the ResponseFuture once more.
RepollDispatch(d) ==
    /\ disp[d].state = "FallbackPending"
    /\ ret[d].kind = "Err"
    /\ \E po \in PrimaryOutcomes, fo \in FallbackOutcomes :
         LET r == ResponseFuturePoll(disp[d], RejectClone(d), po, fbReadiness, fo)
         IN /\ SelectOps(r.ops, "primary.poll") = <<>> => po = Undrawn
            /\ SelectOps(r.ops, "fallback_future.poll") = <<>> => fo = Undrawn
            /\ disp' = [disp EXCEPT ![d] = r.s]
            /\ ret' = [ret EXCEPT ![d] = r.ret]
            /\ trace' = [trace EXCEPT ![d] = r.ops]
            /\ path' = [path EXCEPT ![d] = @ \o r.path]
            /\ fbCalls' = [fbCalls EXCEPT ![d] = @ \o SelectOps(r.ops, "fallback.call")]
            /\ fbReadyPolled' = [fbReadyPolled EXCEPT
                                   ![d] = @ \/ SelectOps(r.ops, "fallback.poll_ready") # <<>>]
            /\ rejectedReq' = [rejectedReq EXCEPT ![d] = @ \o RejectedIn(r.ops)]
    /\ startState' = [startState EXCEPT ![d] = disp[d].state]
    /\ repolled' = [repolled EXCEPT ![d] = TRUE]
    /\ UNCHANGED <<svcState, svcRet, svcTrace, primaryCalls, fbReadiness>>
    /\ UNCHANGED <<makeVars, bodyVars>>

RepollNext ==
    \/ LiveNext
    \/ RepollDispatch(FirstDispatch)

RepollSpec == Init /\ [][RepollNext]_vars

\* ---- a Body read by its consumer ----
\* A response body is wrapped under a tag.
BodyWrap(tag, b) ==
    /\ body = NoBody
    /\ body' = (IF tag = "A" THEN BodyA(b) ELSE BodyB(b))
    /\ bodyTag' = tag
    /\ shadow' = b
    /\ UNCHANGED <<bodyOp, bodyRet, shadowRet>>
    /\ UNCHANGED <<dispVars, makeVars>>

BodyPollDataStep ==
    /\ body # NoBody
    /\ \E o \in PayloadOutcomes :
         LET r == BodyPollData(body, o)
             u == PayloadPollData(shadow, o)
         IN /\ body' = r.b
            /\ bodyRet' = r.res
            /\ shadow' = u.b
            /\ shadowRet' = u.res
    /\ bodyOp' = "poll_data"
    /\ UNCHANGED bodyTag
    /\ UNCHANGED <<dispVars, makeVars>>

BodyPollTrailersStep ==
    /\ body # NoBody
    /\ \E o \in PayloadOutcomes :
         LET r == BodyPollTrailers(body, o)
             u == PayloadPollTrailers(shadow, o)
         IN /\ body' = r.b
            /\ bodyRet' = r.res
            /\ shadow' = u.b
            /\ shadowRet' = u.res
    /\ bodyOp' = "poll_trailers"
    /\ UNCHANGED bodyTag
    /\ UNCHANGED <<dispVars, makeVars>>

BodyIsEndStreamStep ==
    /\ body # NoBody
    /\ \E hint \in BOOLEAN :
         LET r == BodyIsEndStream(body, hint)
             u == PayloadIsEndStream(shadow, hint)
         IN /\ body' = r.b
            /\ bodyRet' = r.res
            /\ shadow' = u.b
            /\ shadowRet' = u.res
    /\ bodyOp' = "is_end_stream"
    /\ UNCHANGED bodyTag
    /\ UNCHANGED <<dispVars, makeVars>>

BodyNext ==
    \/ \E tag \in Tags, chunks \in ChunkSeqs, trailers \in {None} \cup {Some(t) : t \in Trailers} :
          BodyWrap(tag, Payload(chunks, trailers))
    \/ BodyPollDataStep
    \/ BodyPollTrailersStep
    \/ BodyIsEndStreamStep

BodySpec == Init /\ [][BodyNext]_vars

\* ---- properties ----
Last(t) == t[Len(t)]

\* the last poll of dispatch d ended on operation name with result res
EndedOn(d, name, res) ==
    /\ trace[d] # <<>>
    /\ Last(trace[d]).op = name
    /\ Last(trace[d]).res = res

\* C1: when the primary future rejects with a request and the fallback's
\* response future resolves with a response, the dispatch resolves with
\* exactly that response tagged B, and fallback.call received exactly the
\* request the Rejected signal carried: the result is the fallback
\* handler's answer to that request.
C1_RejectionLeadsToFallback ==
    \A d \in Dispatches :
        (rejectedReq[d] # <<>> /\ EndedOn(d, "fallback_future.poll", "Ready")) =>
            LET q == rejectedReq[d][1]
                st == Last(trace[d]).with
            IN /\ Len(rejectedReq[d]) = 1
               /\ Len(fbCalls[d]) = 1
               /\ fbCalls[d][1].req = q
               /\ Last(trace[d]).req = q
               /\ ret[d] = [kind |-> "Ready",
                            val |-> [head |-> FallbackResponse(q, st).head,
                                     body |-> [tag |-> "B",
                                               inner |-> FallbackResponse(q, st).body]]]

C1_Witness ==
    \E d \in Dispatches :
        /\ rejectedReq[d] = <<"/y">>
        /\ EndedOn(d, "fallback_future.poll", "Ready")
        /\ ret[d].kind = "Ready"
        /\ ret[d].val.body = [tag |-> "B", inner |-> "/y"]

\* C2: when the primary future resolves with a response, the dispatch
\* resolves with that same response tagged A, and the dispatch has invoked
\* neither fallback.call() nor fallback.poll_ready(), whatever the
\* fallback's readiness.
C2_PrimarySuccess ==
    \A d \in Dispatches :
        EndedOn(d, "primary.poll", "Ready") =>
            LET o == Last(trace[d])
            IN /\ ret[d] = [kind |-> "Ready",
                            val |-> [head |-> o.with,
                                     body |-> [tag |-> "A", inner |-> o.req]]]
               /\ fbCalls[d] = <<>>
               /\ ~fbReadyPolled[d]
               /\ SelectOps(trace[d], "fallback.call") = <<>>
               /\ SelectOps(trace[d], "fallback.poll_ready") = <<>>
               /\ disp[d].state = "Primary"

C2_Witness ==
    \E d \in Dispatches :
        /\ EndedOn(d, "primary.poll", "Ready")
        /\ ret[d].kind = "Ready"
        /\ ret[d].val.body = [tag |-> "A", inner |-> "/x"]
        /\ fbReadiness = "Ready"

\* C3: when the primary future resolves with Inner(e), the dispatch fails
\* with exactly e on that same poll, stays in Primary (it never enters
\* FallbackPending or Fallback), and the fallback receives no call().
C3_HardFailureShortCircuits ==
    \A d \in Dispatches :
        (\E i \in 1..Len(trace[d]) :
            trace[d][i].op = "primary.poll" /\ trace[d][i].res = "Inner") =>
            /\ Len(trace[d]) = 1
            /\ ret[d] = [kind |-> "Err", val |-> [boxed |-> trace[d][1].with]]
            /\ disp[d].state = "Primary"
            /\ path[d] = <<"Primary">>
            /\ fbCalls[d] = <<>>
            /\ rejectedReq[d] = <<>>

C3_Witness ==
    \E d \in Dispatches :
        /\ EndedOn(d, "primary.poll", "Inner")
        /\ ret[d] = Err(IntoError("e1"))
        /\ fbReadiness = "Ready"

\* C4: after the primary rejects, a poll in which fallback.poll_ready()
\* reports pending returns pending (not an error), leaves the dispatch in
\* FallbackPending with the rejected request still stored, and invokes no
\* fallback.call(); every fallback.call() comes right after a
\* fallback.poll_ready() on the same handle that returned ready in the
\* same poll.
C4_SuspendOnFallbackNotReady ==
    \A d \in Dispatches :
        /\ (\E i \in 1..Len(trace[d]) :
                trace[d][i].op = "fallback.poll_ready"
                    /\ trace[d][i].res = "NotReady") =>
              /\ ret[d] = [kind |-> "NotReady", val |-> NoVal]
              /\ disp[d].state = "FallbackPending"
              /\ disp[d].request = rejectedReq[d]
              /\ Len(rejectedReq[d]) = 1
              /\ fbCalls[d] = <<>>
        /\ \A i \in 1..Len(trace[d]) :
              trace[d][i].op = "fallback.call" =>
                  /\ i > 1
                  /\ trace[d][i - 1].op = "fallback.poll_ready"
                  /\ trace[d][i - 1].res = "Ready"
                  /\ trace[d][i - 1].h = trace[d][i].h

\* a dispatch polled again while the fallback is still not ready
C4_Witness ==
    \E d \in Dispatches :
        /\ startState[d] = "FallbackPending"
        /\ EndedOn(d, "fallback.poll_ready", "NotReady")
        /\ ret[d].kind = "NotReady"
        /\ disp[d].request = <<"/x">>

\* C5: a dispatch suspended in FallbackPending that the executor keeps
\* polling, once the fallback reports ready, invokes fallback.call() exactly
\* once with the rejected request and is in Fallback (unless the readiness
\* check failed first, which ends the dispatch); and a dispatch never holds
\* more than one fallback call.
Suspended(d) ==
    /\ disp[d].state = "FallbackPending"
    /\ ret[d].kind = "NotReady"

Resumed(d) ==
    /\ disp[d].state = "Fallback"
    /\ Len(fbCalls[d]) = 1
    /\ <<fbCalls[d][1].req>> = rejectedReq[d]

ReadinessFailed(d) ==
    /\ disp[d].state = "FallbackPending"
    /\ ret[d].kind = "Err"

C5_ResumeAfterSuspension ==
    /\ \A d \in Dispatches :
          <>[](fbReadiness = "Ready") =>
              (Suspended(d) ~> (Resumed(d) \/ ReadinessFailed(d)))
    /\ [](\A d \in Dispatches : Len(fbCalls[d]) <= 1)

\* a dispatch that was suspended, polled again and resumed
C5_Witness ==
    \E d \in Dispatches :
        /\ startState[d] = "FallbackPending"
        /\ Resumed(d)
        /\ fbCalls[d][1].req = "/y"
\* C6: Service::poll_ready returns ready, pending or error e exactly when
\* the primary handler's poll_ready() returns ready, pending or Inner(e);
\* it performs no operation on the fallback handler, whose readiness or
\* failure does not change the result.
C6_ReadinessPassthrough ==
    (svcTrace # <<>> /\ svcTrace[1].op = "primary.poll_ready") =>
        LET o == svcTrace[1]
        IN /\ Len(svcTrace) = 1
           /\ (o.res = "Ready") <=> (svcRet.kind = "Ready")
           /\ (o.res = "NotReady") <=> (svcRet.kind = "NotReady")
           /\ (o.res = "Inner") <=> (svcRet.kind = "Err")
           /\ (o.res = "Inner") => (svcRet.val = [boxed |-> o.with])
           /\ (o.res = "Ready") <=> (svcState = "ready")

C6_Witness ==
    /\ svcTrace # <<>>
    /\ svcTrace[1].op = "primary.poll_ready"
    /\ svcRet.kind = "Ready"
    /\ fbReadiness = "e1"

\* C7: the states a dispatch is given are, in order, Primary,
\* FallbackPending, Fallback: never backwards, never Primary straight to
\* Fallback; and exactly one branch is live in each state: the primary
\* future in Primary, the fallback handle with the stored request in
\* FallbackPending, the fallback future in Fallback.
DispatchOrder == <<"Primary", "FallbackPending", "Fallback">>

C7_OneDirectionalStates ==
    \A d \in Dispatches :
        /\ Len(path[d]) <= Len(DispatchOrder)
        /\ path[d] = SubSeq(DispatchOrder, 1, Len(path[d]))
        /\ disp[d].state = IF path[d] = <<>> THEN "None" ELSE Last(path[d])
        /\ (disp[d].future # None) <=> (disp[d].state = "Primary")
        /\ (disp[d].request # None) <=> (disp[d].state = "FallbackPending")
        /\ (disp[d].fbFuture # None) <=> (disp[d].state = "Fallback")
        /\ \A i, j \in 1..Len(trace[d]) :
              (i < j /\ trace[d][i].op # "primary.poll") =>
                  trace[d][j].op # "primary.poll"

\* a single poll carried the dispatch from Primary to Fallback
C7_Witness ==
    \E d \in Dispatches :
        /\ path[d] = DispatchOrder
        /\ startState[d] = "Primary"
        /\ disp[d].state = "Fallback"

\* C8: the request of a dispatch has at most one holder (the primary
\* future, the FallbackPending slot or the fallback future), the holder
\* holds the request given to Service::call, primary.call() is invoked
\* exactly once per dispatch and fallback.call() at most once.
HeldRequests(d) ==
    [i \in 1..Len(disp[d].future) |-> disp[d].future[i].req]
        \o disp[d].request
        \o [i \in 1..Len(disp[d].fbFuture) |-> disp[d].fbFuture[i].req]

C8_RequestConservation ==
    \A d \in Dispatches :
        /\ Len(HeldRequests(d)) <= 1
        /\ Len(primaryCalls[d]) = IF disp[d].state = "None" THEN 0 ELSE 1
        /\ \A i \in 1..Len(HeldRequests(d)) :
              HeldRequests(d)[i] = primaryCalls[d][1].req
        /\ Len(fbCalls[d]) <= 1
        /\ \A i \in 1..Len(fbCalls[d]) : fbCalls[d][i].req = primaryCalls[d][1].req

C8_Witness ==
    \E d \in Dispatches :
        /\ disp[d].state = "Fallback"
        /\ HeldRequests(d) = <<"/x">>
        /\ Len(primaryCalls[d]) = 1
        /\ Len(fbCalls[d]) = 1

\* C9: a dispatch invokes fallback.poll_ready() or fallback.call() only
\* after its own primary response future returned Rejected, and after
\* primary.call(); Service::poll_ready and Service::call invoke nothing on
\* the fallback, whatever the primary's readiness result.
IsFallbackOp(o) == o.op \in {"fallback.poll_ready", "fallback.call", "fallback_future.poll"}

C9_FallbackOnlyAfterRejection ==
    /\ \A i \in 1..Len(svcTrace) : ~IsFallbackOp(svcTrace[i])
    /\ \A d \in Dispatches :
          /\ (fbReadyPolled[d] \/ fbCalls[d] # <<>>
                \/ disp[d].state \in {"FallbackPending", "Fallback"}) =>
                  (rejectedReq[d] # <<>> /\ primaryCalls[d] # <<>>)
          /\ \A i \in 1..Len(trace[d]) :
                IsFallbackOp(trace[d][i]) =>
                    \/ startState[d] \in {"FallbackPending", "Fallback"}
                    \/ \E j \in 1..(i - 1) :
                          /\ trace[d][j].op = "primary.poll"
                          /\ trace[d][j].res = "Rejected"

\* the fallback was called in the poll that saw the rejection, while the
\* Service's own readiness check had failed
C9_Witness ==
    \E d \in Dispatches :
        /\ Len(trace[d]) >= 3
        /\ trace[d][1].res = "Rejected"
        /\ trace[d][3].op = "fallback.call"
        /\ svcState = "failed"

\* C10: a poll of a dispatch returns pending, a response tagged A or B, or
\* an error of the common error type, never a Rejected value; and
\* Service::poll_ready never returns a rejection: a Rejected reported by the
\* primary's readiness aborts (panic), returns no error and performs no
\* fallback operation.
C10_RejectionNeverObserved ==
    /\ \A d \in Dispatches :
          /\ ret[d].kind = "Ready" => ret[d].val.body.tag \in {"A", "B"}
          /\ ret[d].kind = "Err" => ret[d].val \in {[boxed |-> e] : e \in RawErrors}
          /\ ret[d].kind \in {"None", "NotReady", "Ready", "Err", "NoArm"}
    /\ svcRet.kind = "Err" => svcRet.val \in {[boxed |-> e] : e \in RawErrors}
    /\ (svcTrace # <<>> /\ svcTrace[1].res = "Rejected") =>
          /\ svcRet.kind = "Panic"
          /\ svcState = "panicked"
          /\ Len(svcTrace) = 1

\* the readiness check aborted on a rejection, and a rejected dispatch
\* resolved with a response
C10_Witness ==
    /\ svcRet.kind = "Panic"
    /\ \E d \in Dispatches :
          /\ rejectedReq[d] # <<>>
          /\ ret[d].kind = "Ready"
\* C11: MakeSvc::poll_ready returns ready exactly when both sub-factories
\* report ready, an error whenever one of them reports an error (the
\* primary's first), whatever the other reports, and pending otherwise.
C11_FactoryReadiness ==
    mkIn # <<>> =>
        LET p == mkIn[1]
            f == mkIn[2]
        IN /\ (mkRet.kind = "Ready") <=> (p = "Ready" /\ f = "Ready")
           /\ (mkRet.kind = "Err") <=> (p \in MakeErrors \/ f \in MakeErrors)
           /\ p \in MakeErrors => mkRet = [kind |-> "Err", val |-> [boxed |-> p]]
           /\ (p \notin MakeErrors /\ f \in MakeErrors) =>
                 mkRet = [kind |-> "Err", val |-> [boxed |-> f]]
           /\ (mkRet.kind = "NotReady") <=>
                 (/\ p \notin MakeErrors
                  /\ f \notin MakeErrors
                  /\ (p = "NotReady" \/ f = "NotReady"))

\* the fallback sub-factory fails while the primary one is pending
C11_Witness ==
    /\ mkIn = <<"NotReady", "m2">>
    /\ mkRet = Err(IntoError("m2"))
\* C12: if the primary or the fallback construction has failed when the
\* MakeFuture is polled, that poll returns the failed construction's error
\* and no Service, whether the other construction is still pending or has
\* already succeeded.
C12_ConstructionErrorTerminates ==
    (mfSeen # <<>> /\ (mfSeen[1] = "Failed" \/ mfSeen[2] = "Failed")) =>
        /\ mfRet.kind = "Err"
        /\ mfRet.val = [boxed |-> IF mfSeen[1] = "Failed"
                                  THEN mf.primary.err ELSE mf.fallback.err]

\* C13: once both constructions have completed successfully, a MakeFuture
\* that keeps being polled eventually yields the Service wrapping the
\* primary-constructed and the fallback-constructed handler; and it yields
\* a Service only when both have completed.
BothConstructed ==
    /\ mf.created
    /\ mf.primary.status = "Ok"
    /\ mf.fallback.status = "Ok"

ServiceMade ==
    mfRet = [kind |-> "Ready",
             val |-> [primary_service |-> [made_by |-> "primary", target |-> mf.target],
                      fallback_service |-> [made_by |-> "fallback", target |-> mf.target]]]

C13_FactoryFutureResolves ==
    /\ BothConstructed ~> ServiceMade
    /\ [](mfRet.kind = "Ready" => (BothConstructed /\ ServiceMade))

\* C19: a poll of the MakeFuture never polls a construction that has
\* already yielded its handler: once the primary construction has yielded
\* while the fallback construction is pending, later polls poll only the
\* fallback construction.
C19_NoRepollOfFinishedConstruction ==
    /\ \A i \in 1..Len(mfTrace) : ~mfTrace[i].stale
    /\ (mf.primary.yielded /\ mfSeen # <<>> /\ mfSeen[1] = "Ok"
            /\ Len(mfTrace) = 1) =>
          mfTrace[1].op = "fallback.poll"

\* C14: concurrent dispatches are independent: a step that changes anything
\* of one dispatch changes nothing of any other; every operation of a
\* dispatch's poll is on the dispatch's own request and own fallback clone,
\* so the fallback is called with that request only; and what a poll returns
\* is decided by the result of the last operation of that same poll, on the
\* dispatch's own primary future, fallback readiness or fallback future.
DispatchView(d) ==
    <<disp[d], ret[d], trace[d], startState[d], path[d], primaryCalls[d],
      fbCalls[d], fbReadyPolled[d], rejectedReq[d]>>

OwnRequestOnly(d) ==
    /\ \A i \in 1..Len(fbCalls[d]) :
          /\ primaryCalls[d] # <<>>
          /\ fbCalls[d][i].req = primaryCalls[d][1].req
          /\ fbCalls[d][i].h = RejectClone(d)
    /\ \A i \in 1..Len(trace[d]) :
          /\ trace[d][i].req \in {NoReq, primaryCalls[d][1].req}
          /\ trace[d][i].h \in {NoHandle, RejectClone(d)}
    /\ disp[d].state = "FallbackPending" =>
          disp[d].request = Some(primaryCalls[d][1].req)

\* what a poll that ended on operation o returns
OutcomeOf(o) ==
    CASE o.op = "primary.poll" /\ o.res = "Ready" ->
             Ready([head |-> o.with, body |-> [tag |-> "A", inner |-> o.req]])
      [] o.op = "primary.poll" /\ o.res = "Inner" -> Err([boxed |-> o.with])
      [] o.op = "primary.poll" /\ o.res = "NotReady" -> NoArm
      [] o.op = "fallback.poll_ready" /\ o.res = "NotReady" -> NotReady
      [] o.op = "fallback.poll_ready" /\ o.res = "Err" -> Err([boxed |-> o.with])
      [] o.op = "fallback_future.poll" /\ o.res = "Ready" ->
             Ready([head |-> o.with, body |-> [tag |-> "B", inner |-> o.req]])
      [] o.op = "fallback_future.poll" /\ o.res = "NotReady" -> NotReady
      [] o.op = "fallback_future.poll" /\ o.res = "Err" -> Err([boxed |-> o.with])
      [] OTHER -> Panic

OwnOutcome(d) ==
    ret[d].kind # "None" =>
        /\ trace[d] # <<>>
        /\ ret[d].kind = OutcomeOf(Last(trace[d])).kind
        /\ ret[d].val = OutcomeOf(Last(trace[d])).val

C14_Independence ==
    /\ [][\A d \in Dispatches :
            DispatchView(d)' # DispatchView(d) =>
                \A e \in Dispatches \ {d} : DispatchView(e)' = DispatchView(e)]_vars
    /\ [](\A d \in Dispatches : OwnRequestOnly(d) /\ OwnOutcome(d))

\* two dispatches in flight with different requests, both rejected, one
\* suspended on the fallback's readiness and one already on the fallback
C14_Witness ==
    \E d \in Dispatches, e \in Dispatches :
        /\ d # e
        /\ disp[d].state = "Fallback"
        /\ fbCalls[d] # <<>>
        /\ fbCalls[d][1].req = "/x"
        /\ disp[e].state = "FallbackPending"
        /\ disp[e].request = Some("/y")
        /\ ret[e].kind = "NotReady"

\* C15: after any sequence of poll_data / poll_trailers / is_end_stream on
\* a Body, the Body still has the tag it was created with, the body it wraps
\* is where the same sequence leaves that body driven directly, and the last
\* operation returned what it returns on that body: the same chunk under the
\* Body's tag, the same trailers, the same end-of-stream answer, the same
\* error or the same pending.
Tagged(tag, c) == [tag |-> tag, inner |-> c]

C15_BodyPassThrough ==
    body # NoBody =>
        /\ body.tag = bodyTag
        /\ body.tag \in Tags
        /\ body.inner = shadow
        /\ bodyRet.kind = shadowRet.kind
        /\ IF bodyOp = "poll_data" /\ shadowRet.kind = "Ready" /\ shadowRet.val # None
           THEN bodyRet.val = Some(Tagged(bodyTag, shadowRet.val[1]))
           ELSE bodyRet.val = shadowRet.val

\* a Body of tag A whose second chunk has just been read
C15_Witness ==
    /\ bodyTag = "A"
    /\ bodyOp = "poll_data"
    /\ bodyRet.kind = "Ready"
    /\ bodyRet.val = Some(Tagged("A", "c2"))
    /\ body.inner.chunks = <<>>
    /\ body.inner.trailers = Some("tr")

\* C16: a poll of a dispatch in Primary whose primary future is not yet
\* resolved returns pending, leaves the dispatch in Primary with the same
\* primary future and fallback handle and invokes nothing on the fallback;
\* and every poll of a dispatch returns ready, pending or an error.
C16_PrimaryPendingSuspends ==
    \A d \in Dispatches :
        /\ (startState[d] = "Primary" /\ EndedOn(d, "primary.poll", "NotReady")) =>
              /\ ret[d] = NotReady
              /\ disp[d] = Primary(PrimaryCall(primaryCalls[d][1].req), CallClone(d))
              /\ \A i \in 1..Len(trace[d]) : ~IsFallbackOp(trace[d][i])
        /\ ret[d].kind \in {"None", "Ready", "NotReady", "Err"}

\* C17: a poll in which fallback.poll_ready() returns an error ends there
\* with that error, normalized; fallback.call() is not invoked, and the
\* dispatch is left in FallbackPending holding the rejected request.
C17_FallbackReadinessFailureIsHard ==
    \A d \in Dispatches :
        \A i \in 1..Len(trace[d]) :
            (trace[d][i].op = "fallback.poll_ready" /\ trace[d][i].res = "Err") =>
                /\ i = Len(trace[d])
                /\ ret[d] = Err(IntoError(trace[d][i].with))
                /\ SelectOps(trace[d], "fallback.call") = <<>>
                /\ fbCalls[d] = <<>>
                /\ disp[d].state = "FallbackPending"
                /\ disp[d].fallback = trace[d][i].h
                /\ Len(rejectedReq[d]) = 1
                /\ disp[d].request = rejectedReq[d]

\* a dispatch suspended on the fallback's readiness, whose next poll finds
\* the readiness check failing
C17_Witness ==
    \E d \in Dispatches :
        /\ startState[d] = "FallbackPending"
        /\ EndedOn(d, "fallback.poll_ready", "Err")
        /\ ret[d] = Err(IntoError("e1"))
        /\ disp[d].request = Some("/y")

\* C18: a dispatch in FallbackPending always holds the rejected request,
\* also when it is polled again after a pending or a failing readiness
\* check, so no poll panics on an absent request; a held request leaves the
\* dispatch only in a step that calls the fallback with it and puts the
\* dispatch in Fallback.
C18_RequestPresentWhilePending ==
    /\ [](\A d \in Dispatches :
            /\ disp[d].state = "FallbackPending" =>
                  /\ disp[d].request # None
                  /\ disp[d].request = rejectedReq[d]
            /\ ret[d].kind # "Panic")
    /\ [][\A d \in Dispatches :
            (disp[d].request # None /\ disp[d]' # disp[d]) =>
                /\ disp[d]' = Fallback(FallbackCall(disp[d].fallback, disp[d].request[1]))
                /\ fbCalls[d]' # <<>>
                /\ Last(fbCalls[d]').op = "fallback.call"
                /\ Last(fbCalls[d]').h = disp[d].fallback
                /\ Last(fbCalls[d]').req = disp[d].request[1]]_vars

\* a dispatch polled again after its readiness check failed, which then
\* found the fallback ready and called it with the request it still held
C18_Witness ==
    \E d \in Dispatches :
        /\ repolled[d]
        /\ startState[d] = "FallbackPending"
        /\ disp[d].state = "Fallback"
        /\ Len(fbCalls[d]) = 1
        /\ fbCalls[d][1].req = "/x"
        /\ rejectedReq[d] = <<"/x">>

\* C20: a poll that returns pending ended on the operation the state it
\* leaves the dispatch in waits on, and that operation reported not ready.
WaitsOn(state) ==
    CASE state = "Primary" -> "primary.poll"
      [] state = "FallbackPending" -> "fallback.poll_ready"
      [] state = "Fallback" -> "fallback_future.poll"
      [] OTHER -> "none"

C20_NoLostWakeup ==
    \A d \in Dispatches :
        ret[d].kind = "NotReady" =>
            /\ trace[d] # <<>>
            /\ Last(trace[d]).op = WaitsOn(disp[d].state)
            /\ Last(trace[d]).res = "NotReady"

\* one poll carried a dispatch from Primary through FallbackPending to
\* Fallback and suspended it on the fallback future; one poll carried
\* another from Primary to a tag-B result
C20_Witness ==
    \E d \in Dispatches, e \in Dispatches :
        /\ startState[d] = "Primary"
        /\ disp[d].state = "Fallback"
        /\ ret[d].kind = "NotReady"
        /\ startState[e] = "Primary"
        /\ ret[e].kind = "Ready"
        /\ ret[e].val.body.tag = "B"
====
